---- MODULE Spec2Model ----
(***************************************************************************)
(* FieldDataProcessor (field_data_processor.py): a pandas DataFrame held   *)
(* by the instance is loaded by ingest_sql_data, has two column names      *)
(* swapped by rename_columns, and is corrected by apply_corrections;       *)
(* process runs the three in order.                                        *)
(*                                                                         *)
(* A DataFrame is a sequence of columns; a column has a name, a dtype      *)
(* ("int" for int64, "str" for object/str) and its values, one per row.    *)
(* int64 is scaled down to IntBits bits, with numpy's wrap-around kept.    *)
(***************************************************************************)
EXTENDS Integers, Sequences, FiniteSets, TLC

\* ------------------------------------------------------------------ bounds
MaxCols == 3
IntBits == 8

IntMin == -(2 ^ (IntBits - 1))
IntMax == (2 ^ (IntBits - 1)) - 1

\* ------------------------------------------------------------- DataFrames
NoneDF == [is_none |-> TRUE, cols |-> << >>]

DataFrame(cs) == [is_none |-> FALSE, cols |-> cs]

IntColumn(n, vals) == [name |-> n, kind |-> "int", ints |-> vals, strs |-> << >>]

StrColumn(n, vals) == [name |-> n, kind |-> "str", ints |-> << >>, strs |-> vals]

\* df.columns, as the set the `in` test of the loop reads
ColumnNames(t) == {t.cols[i].name : i \in DOMAIN t.cols}

NumCols(t) == Len(t.cols)

DistinctNames(t) == \A i, j \in DOMAIN t.cols : t.cols[i].name = t.cols[j].name => i = j

\* ------------------------------------------------------ names and sources
TempBase == "__temp_name_for_swap__"

Names == {"Crop_type", "Elevation", "Field_A", "Field_B", TempBase, TempBase \o "_"}

NameOrder == <<"Crop_type", "Elevation", "Field_A", "Field_B", TempBase, TempBase \o "_">>

IntNames == {"Elevation", "Field_A", TempBase}

\* rows of the source database, each column's value in rows 1..4
IntData(n) ==
    IF n = "Elevation" THEN <<-5, 10, -3, IntMin>>
    ELSE IF n = "Field_A" THEN <<7, -2, 0, IntMax>>
    ELSE <<1, -1, 4, -4>>

StrData(n) ==
    IF n = "Crop_type" THEN <<"maize", "unknown_code", "wheat", "rice">>
    ELSE IF n = "Field_B" THEN <<"unknown_code", "cassava", "tea", "wheat">>
    ELSE <<"a", "b", "c", "d">>

\* the rows a query selects
RowSelections == {<<1, 2, 3>>, <<4>>, <<2, 4>>}

SourceColumn(n, sel) ==
    IF n \in IntNames
    THEN IntColumn(n, [i \in 1..Len(sel) |-> IntData(n)[sel[i]]])
    ELSE StrColumn(n, [i \in 1..Len(sel) |-> StrData(n)[sel[i]]])

SourceTable(S, sel) ==
    LET ns == SelectSeq(NameOrder, LAMBDA n : n \in S)
    IN DataFrame([i \in 1..Len(ns) |-> SourceColumn(ns[i], sel)])

SourceTables(names) ==
    {SourceTable(S, sel) : S \in {X \in SUBSET names : Cardinality(X) \in 1..MaxCols},
                           sel \in RowSelections}

\* the table read_from_web_CSV returns
WeatherTable ==
    DataFrame(<<IntColumn("Field_ID", <<1, 2>>), StrColumn("Weather_station_ID", <<"s0", "s1">>)>>)

\* ------------------------------------------------------------------ state
VARIABLES
    db_path, sql_query, columns_to_rename, values_to_rename, weather_map_data,
    df, engine,
    call,       \* the method called last
    error,      \* the exception it raised, "None" when it returned
    steps,      \* the steps process attempted, in order
    args,       \* <<column_name, abs_column>> of an apply_corrections call
    temp_name,  \* the temporary label rename_columns chose, "" when it chose none
    loaded,     \* the table query_data returned to the last call
    returned,   \* the table the last call returned to its caller
    stage,      \* the last step that succeeded on the table
    snapshots   \* df as it was before each of the trailing rename_columns calls (two kept)

config == <<db_path, sql_query, columns_to_rename, values_to_rename, weather_map_data>>

vars == <<db_path, sql_query, columns_to_rename, values_to_rename, weather_map_data,
          df, engine, call, error, steps, args, temp_name, loaded, returned, stage, snapshots>>

\* ---------------------------------------------------------- rename_columns
\* DataFrame.rename(columns=mapper): labels absent from the frame are ignored
Rename(t, mapper) ==
    DataFrame([i \in DOMAIN t.cols |->
        [t.cols[i] EXCEPT !.name = IF @ \in DOMAIN mapper THEN mapper[@] ELSE @]])

\* the dict literal {k1: v1, k2: v2}: the later entry wins on equal keys
Dict2(k1, v1, k2, v2) == (k2 :> v2) @@ (k1 :> v1)

RECURSIVE TempLoop(_, _)
TempLoop(cols, label) ==
    IF label \in cols THEN TempLoop(cols, label \o "_") ELSE label

TempNameNoLoop(t) == TempBase

TempNameFor(t) == TempLoop(ColumnNames(t), TempBase)

\* a swap that forgets its second rename
SwapColumnsNoRestore(t, column1, column2) ==
    Rename(t, Dict2(column1, TempNameFor(t), column2, column1))

SwapColumns(t, column1, column2) ==
    LET temp == TempNameFor(t)
        first == Rename(t, Dict2(column1, temp, column2, column1))
    IN Rename(first, temp :> column2)

RenameColumnsUnguarded(t, ctr) ==
    IF Len(ctr) = 0
    THEN [df |-> t, error |-> "IndexError", temp_name |-> ""]
    ELSE LET s == IF t.is_none THEN DataFrame(<< >>) ELSE t
         IN [df |-> SwapColumns(s, ctr[1][1], ctr[1][2]), error |-> "None",
             temp_name |-> TempNameFor(s)]

RenameColumnsResult(t, ctr) ==
    IF Len(ctr) = 0
    THEN [df |-> t, error |-> "IndexError", temp_name |-> ""]
    ELSE IF t.is_none
    THEN [df |-> t, error |-> "AttributeError", temp_name |-> ""]
    ELSE [df |-> SwapColumns(t, ctr[1][1], ctr[1][2]), error |-> "None",
          temp_name |-> TempNameFor(t)]

\* ------------------------------------------------------- apply_corrections
\* Series.abs() on int64: the negation wraps
NpAbs(v) ==
    IF v >= 0 THEN v
    ELSE IF -v > IntMax THEN -v - 2 ^ IntBits ELSE -v

DictGetTwice(m, k) ==
    LET once == IF k \in DOMAIN m THEN m[k] ELSE k
    IN IF once \in DOMAIN m THEN m[once] ELSE once

\* values_to_rename.get(crop, crop)
DictGet(m, k) == IF k \in DOMAIN m THEN m[k] ELSE k

HasStrColumn(t, n) == \E i \in DOMAIN t.cols : t.cols[i].name = n /\ t.cols[i].kind = "str"

\* self.df[abs_column] = self.df[abs_column].abs()
AbsColumn(t, abs_column) ==
    DataFrame([i \in DOMAIN t.cols |->
        IF t.cols[i].name = abs_column
        THEN [t.cols[i] EXCEPT !.ints = [r \in DOMAIN @ |-> NpAbs(@[r])]]
        ELSE t.cols[i]])

\* self.df[column_name] = self.df[column_name].apply(lambda crop: ...get(crop, crop));
\* the mapping's keys are strings, so the values of an int column pass through
MapColumn(t, m, column_name) ==
    DataFrame([i \in DOMAIN t.cols |->
        IF t.cols[i].name = column_name
        THEN [t.cols[i] EXCEPT !.strs = [r \in DOMAIN @ |-> DictGet(m, @[r])]]
        ELSE t.cols[i]])

ApplyCorrectionsResult(t, m, column_name, abs_column) ==
    IF t.is_none
    THEN [df |-> t, error |-> "TypeError"]
    ELSE IF abs_column \notin ColumnNames(t)
    THEN [df |-> t, error |-> "KeyError"]
    ELSE IF HasStrColumn(t, abs_column)
    THEN [df |-> t, error |-> "TypeError"]
    ELSE IF column_name \notin ColumnNames(t)
    THEN [df |-> AbsColumn(t, abs_column), error |-> "KeyError"]
    ELSE [df |-> MapColumn(AbsColumn(t, abs_column), m, column_name), error |-> "None"]

\* --------------------------------------------------------- ingest_sql_data
\* what create_db_engine and query_data do is outside the class: either raises,
\* or query_data returns a table
IngestOutcomes(tables) ==
    {[status |-> "connect_error", table |-> NoneDF], [status |-> "query_error", table |-> NoneDF]}
    \cup {[status |-> "ok", table |-> t] : t \in tables}

IngestSqlDataResult(e, t, outcome) ==
    IF outcome.status = "connect_error"
    THEN [engine |-> e, df |-> t, error |-> "ConnectionError", loaded |-> NoneDF]
    ELSE IF outcome.status = "query_error"
    THEN [engine |-> "Engine", df |-> t, error |-> "QueryError", loaded |-> NoneDF]
    ELSE [engine |-> "Engine", df |-> outcome.table, error |-> "None", loaded |-> outcome.table]

\* ------------------------------------------------- weather_station_mapping
\* what read_from_web_CSV does is outside the class: it raises or returns a table
WeatherOutcomes ==
    {[status |-> "fetch_error", table |-> NoneDF], [status |-> "ok", table |-> WeatherTable]}

WeatherStoresTable(t, outcome) ==
    IF outcome.status = "fetch_error"
    THEN [df |-> t, error |-> "FetchError", returned |-> NoneDF]
    ELSE [df |-> outcome.table, error |-> "None", returned |-> outcome.table]

WeatherStationMappingResult(t, outcome) ==
    IF outcome.status = "fetch_error"
    THEN [df |-> t, error |-> "FetchError", returned |-> NoneDF]
    ELSE [df |-> t, error |-> "None", returned |-> outcome.table]

\* ------------------------------------------------------------------ process
StageAfter(step) ==
    IF step = "ingest_sql_data" THEN "Ingested"
    ELSE IF step = "rename_columns" THEN "Renamed"
    ELSE "Corrected"

\* a process that swallows the exception of a step and runs the next one
ProcessKeepsGoing(e, t, ctr, m, outcome) ==
    LET ing == IngestSqlDataResult(e, t, outcome)
        ren == RenameColumnsResult(ing.df, ctr)
        cor == ApplyCorrectionsResult(ren.df, m, "Crop_type", "Elevation")
    IN [engine |-> ing.engine, df |-> cor.df, error |-> cor.error,
        steps |-> <<"ingest_sql_data", "rename_columns", "apply_corrections">>,
        temp_name |-> ren.temp_name, loaded |-> ing.loaded,
        succeeded |-> IF cor.error = "None" THEN 3 ELSE 0]

\* succeeded: how many of the attempted steps returned
ProcessResult(e, t, ctr, m, outcome) ==
    LET ing == IngestSqlDataResult(e, t, outcome)
        ren == RenameColumnsResult(ing.df, ctr)
        cor == ApplyCorrectionsResult(ren.df, m, "Crop_type", "Elevation")
    IN IF ing.error # "None"
       THEN [engine |-> ing.engine, df |-> ing.df, error |-> ing.error,
             steps |-> <<"ingest_sql_data">>,
             temp_name |-> "", loaded |-> ing.loaded, succeeded |-> 0]
       ELSE IF ren.error # "None"
       THEN [engine |-> ing.engine, df |-> ren.df, error |-> ren.error,
             steps |-> <<"ingest_sql_data", "rename_columns">>,
             temp_name |-> ren.temp_name, loaded |-> ing.loaded, succeeded |-> 1]
       ELSE [engine |-> ing.engine, df |-> cor.df, error |-> cor.error,
             steps |-> <<"ingest_sql_data", "rename_columns", "apply_corrections">>,
             temp_name |-> ren.temp_name, loaded |-> ing.loaded,
             succeeded |-> IF cor.error = "None" THEN 3 ELSE 2]

\* ------------------------------------------------------------------ actions
IngestSqlData(outcome) ==
    LET r == IngestSqlDataResult(engine, df, outcome)
    IN /\ engine' = r.engine
       /\ df' = r.df
       /\ args' = << >>
       /\ call' = "ingest_sql_data"
       /\ error' = r.error
       /\ steps' = << >>
       /\ temp_name' = ""
       /\ loaded' = r.loaded
       /\ returned' = (IF r.error = "None" THEN r.df ELSE NoneDF)
       /\ stage' = (IF r.error = "None" THEN StageAfter("ingest_sql_data") ELSE stage)
       /\ snapshots' = << >>
       /\ UNCHANGED config

RenameColumns ==
    LET r == RenameColumnsResult(df, columns_to_rename)
    IN /\ df' = r.df
       /\ args' = << >>
       /\ call' = "rename_columns"
       /\ error' = r.error
       /\ steps' = << >>
       /\ temp_name' = r.temp_name
       /\ loaded' = NoneDF
       /\ returned' = NoneDF
       /\ stage' = (IF r.error = "None" THEN StageAfter("rename_columns") ELSE stage)
       /\ snapshots' = (IF Len(snapshots) = 0 THEN <<df>>
                        ELSE <<snapshots[Len(snapshots)], df>>)
       /\ UNCHANGED <<config, engine>>

ApplyCorrections(column_name, abs_column) ==
    LET r == ApplyCorrectionsResult(df, values_to_rename, column_name, abs_column)
    IN /\ df' = r.df
       /\ call' = "apply_corrections"
       /\ error' = r.error
       /\ steps' = << >>
       /\ args' = <<column_name, abs_column>>
       /\ temp_name' = ""
       /\ loaded' = NoneDF
       /\ returned' = NoneDF
       /\ stage' = (IF r.error = "None" THEN StageAfter("apply_corrections") ELSE stage)
       /\ snapshots' = << >>
       /\ UNCHANGED <<config, engine>>

WeatherStationMapping(outcome) ==
    LET r == WeatherStationMappingResult(df, outcome)
    IN /\ df' = r.df
       /\ args' = << >>
       /\ call' = "weather_station_mapping"
       /\ error' = r.error
       /\ steps' = << >>
       /\ temp_name' = ""
       /\ loaded' = NoneDF
       /\ returned' = r.returned
       /\ snapshots' = << >>
       /\ UNCHANGED <<config, engine, stage>>

Process(outcome) ==
    LET r == ProcessResult(engine, df, columns_to_rename, values_to_rename, outcome)
    IN /\ engine' = r.engine
       /\ df' = r.df
       /\ args' = << >>
       /\ call' = "process"
       /\ error' = r.error
       /\ steps' = r.steps
       /\ temp_name' = r.temp_name
       /\ loaded' = r.loaded
       /\ returned' = NoneDF
       /\ stage' = (IF r.succeeded = 0 THEN stage ELSE StageAfter(r.steps[r.succeeded]))
       /\ snapshots' = << >>
       /\ UNCHANGED config

\* ----------------------------------------------------------- specifications
\* __init__: the configuration is stored, df and engine are None
Constructed(pairs, maps) ==
    /\ db_path = "field_data.db"
    /\ sql_query = "SELECT * FROM field_data"
    /\ columns_to_rename \in pairs
    /\ values_to_rename \in maps
    /\ weather_map_data = "weather_mapping.csv"
    /\ df = NoneDF
    /\ engine = "None"
    /\ call = "__init__"
    /\ error = "None"
    /\ steps = << >>
    /\ args = << >>
    /\ temp_name = ""
    /\ loaded = NoneDF
    /\ returned = NoneDF
    /\ stage = "Unpopulated"
    /\ snapshots = << >>

ChainMap == ("unknown_code" :> "wheat") @@ ("wheat" :> "rice")

ValueMaps == {ChainMap, "unknown_code" :> "wheat", << >>}

AllPairs == {<< <<a, b>> >> : a \in Names, b \in Names} \cup {<< >>}

PipelinePairs == {<< >>, << <<"Field_A", "Field_B">> >>, << <<"Crop_type", "Elevation">> >>}

PipelineNames == {"Crop_type", "Elevation", "Field_A"}

\* the whole class, on the columns the pipeline reads
Init == Constructed(PipelinePairs, {ChainMap})

Next ==
    \/ \E o \in IngestOutcomes(SourceTables(PipelineNames)) : IngestSqlData(o)
    \/ RenameColumns
    \/ ApplyCorrections("Crop_type", "Elevation")
    \/ \E o \in WeatherOutcomes : WeatherStationMapping(o)
    \/ \E o \in IngestOutcomes(SourceTables(PipelineNames)) : Process(o)

Spec == Init /\ [][Next]_vars

\* rename_columns, on every rename pair and every set of column names
InitRename == Constructed(AllPairs, {ChainMap})

NextRename ==
    \/ \E o \in IngestOutcomes(SourceTables(Names)) : IngestSqlData(o)
    \/ RenameColumns

SpecRename == InitRename /\ [][NextRename]_vars

\* apply_corrections, on every choice of its two columns
InitCorrections == Constructed({<< <<"Crop_type", "Field_B">> >>}, ValueMaps)

NextCorrections ==
    \/ \E o \in IngestOutcomes(SourceTables(Names \ {TempBase \o "_"})) : IngestSqlData(o)
    \/ RenameColumns
    \/ \E c, a \in Names \ {TempBase, TempBase \o "_"} : ApplyCorrections(c, a)

SpecCorrections == InitCorrections /\ [][NextCorrections]_vars

\* ------------------------------------------------- claims on rename_columns
HasPair == Len(columns_to_rename) > 0

\* column1, column2 = list(keys())[0], list(values())[0]
column1 == columns_to_rename[1][1]

column2 == columns_to_rename[1][2]

\* df as it was when the last rename_columns call began
BeforeRename == snapshots[Len(snapshots)]

RenameReturned == call = "rename_columns" /\ error = "None"

SameValues(c, d) == c.kind = d.kind /\ c.ints = d.ints /\ c.strs = d.strs

RECURSIVE Underscores(_)
Underscores(k) == IF k = 0 THEN "" ELSE Underscores(k - 1) \o "_"

\* C1: when both names of the rename pair are columns of the table, rename_columns
\* leaves every column in place with its values, the column that was named A now
\* named B, the column that was named B now named A, every other name kept.
C1_TrueSwap ==
    (RenameReturned /\ {column1, column2} \subseteq ColumnNames(BeforeRename)) =>
        /\ NumCols(df) = NumCols(BeforeRename)
        /\ \A i \in DOMAIN BeforeRename.cols :
            LET old == BeforeRename.cols[i]
            IN /\ SameValues(df.cols[i], old)
               /\ df.cols[i].name = (IF old.name = column1 THEN column2
                                     ELSE IF old.name = column2 THEN column1
                                     ELSE old.name)

C1_Witness ==
    /\ RenameReturned
    /\ column1 # column2
    /\ {column1, column2, TempBase} \subseteq ColumnNames(BeforeRename)
    /\ NumCols(df) = 3
    /\ \E i, j \in DOMAIN df.cols :
        /\ ~SameValues(df.cols[i], df.cols[j])
        /\ df.cols[i].name = column1 /\ BeforeRename.cols[i].name = column2
        /\ df.cols[j].name = column2 /\ BeforeRename.cols[j].name = column1

\* C2: the temporary label rename_columns chooses is the base marker followed by
\* underscores, at most one per column of the table, and is the name of no column
\* the table had when the label was chosen.
C2_TempLabelFresh ==
    RenameReturned =>
        /\ temp_name \notin ColumnNames(BeforeRename)
        /\ \E k \in 0..NumCols(BeforeRename) : temp_name = TempBase \o Underscores(k)

C2_Witness ==
    /\ RenameReturned
    /\ {TempBase, TempBase \o "_"} \subseteq ColumnNames(BeforeRename)
    /\ temp_name = TempBase \o "__"

\* C5: when a name of the rename pair is no column of the populated table,
\* rename_columns raises KeyError.
C5_MissingColumnRaises ==
    (/\ call = "rename_columns"
     /\ HasPair
     /\ ~BeforeRename.is_none
     /\ (column1 \notin ColumnNames(BeforeRename) \/ column2 \notin ColumnNames(BeforeRename)))
    => error = "KeyError"

StraightRenameCase ==
    /\ call = "rename_columns"
    /\ HasPair
    /\ ~BeforeRename.is_none
    /\ column1 \in ColumnNames(BeforeRename)
    /\ column2 \notin ColumnNames(BeforeRename)

StraightRenameDone ==
    /\ error = "None"
    /\ NumCols(df) = NumCols(BeforeRename)
    /\ \A i \in DOMAIN BeforeRename.cols :
        LET old == BeforeRename.cols[i]
        IN /\ SameValues(df.cols[i], old)
           /\ df.cols[i].name = (IF old.name = column1 THEN column2 ELSE old.name)
    /\ column1 \notin ColumnNames(df)

C10_RenameTwiceRestores ==
    (/\ RenameReturned
     /\ Len(snapshots) = 2
     /\ ~snapshots[1].is_none
     /\ DistinctNames(snapshots[1])
     /\ (column1 \in ColumnNames(snapshots[1]) \/ column2 \in ColumnNames(snapshots[1])))
    => /\ df = snapshots[1]
       /\ NumCols(snapshots[2]) = NumCols(snapshots[1])
       /\ DistinctNames(snapshots[2])
       /\ DistinctNames(df)

C10_Witness ==
    /\ RenameReturned
    /\ Len(snapshots) = 2
    /\ ~snapshots[1].is_none
    /\ column1 \in ColumnNames(snapshots[1])
    /\ column2 \notin ColumnNames(snapshots[1])
    /\ TempBase \in ColumnNames(snapshots[1])
    /\ snapshots[2] # snapshots[1]
    /\ df = snapshots[1]

\* ---------------------------------------------- claims on apply_corrections
CorrectionsReturned == call = "apply_corrections" /\ error = "None"

Magnitude(v) == IF v >= 0 THEN v ELSE -v

Lookup(k) == IF k \in DOMAIN values_to_rename THEN values_to_rename[k] ELSE k

\* C3: after apply_corrections every value of the numeric column is non-negative
\* and equal in magnitude to the value the row had before.
C3_AbsNonNegative ==
    [][CorrectionsReturned' =>
        \A i \in DOMAIN df.cols :
            df.cols[i].name = args'[2] =>
                \A r \in DOMAIN df.cols[i].ints :
                    /\ df'.cols[i].ints[r] >= 0
                    /\ df'.cols[i].ints[r] = Magnitude(df.cols[i].ints[r])]_vars

\* C4: after apply_corrections every value of the categorical column is what
\* values_to_rename gives for the value the row had before the call when that
\* value is a key of the mapping, and is that value unchanged when it is not;
\* the mapping is applied once, and the column keeps its name and its place.
C4_MappedOnce ==
    [][CorrectionsReturned' =>
        \A i \in DOMAIN df.cols :
            (df.cols[i].name = args'[1] /\ df.cols[i].kind = "str") =>
                /\ df'.cols[i].name = df.cols[i].name
                /\ df'.cols[i].kind = "str"
                /\ df'.cols[i].strs =
                       [r \in DOMAIN df.cols[i].strs |-> Lookup(df.cols[i].strs[r])]]_vars

C4_Witness ==
    /\ CorrectionsReturned
    /\ stage = "Corrected"
    /\ values_to_rename = ChainMap
    /\ \E i \in DOMAIN df.cols :
        /\ df.cols[i].name = args[1]
        /\ df.cols[i].strs = <<"maize", "wheat", "rice">>
    /\ \E i \in DOMAIN df.cols :
        /\ df.cols[i].name = args[2]
        /\ df.cols[i].ints = <<5, 10, 3>>

\* ------------------------------------------------------ claims on the pipeline
IngestErrors == {"ConnectionError", "QueryError"}

ProcessSteps == <<"ingest_sql_data", "rename_columns", "apply_corrections">>

\* the table query_data returned, after a rename_columns of its own
RenamedLoaded == RenameColumnsResult(loaded, columns_to_rename).df

\* C7 as stated: the table's stage changes only from Unpopulated to Ingested, from
\* Ingested to Renamed and from Renamed to Corrected (an ingestion, which replaces
\* the table, starts again at Ingested); process runs the three steps in one call.
C7_NoStageSkipped ==
    [][(stage' # stage /\ call' # "process") =>
        \/ stage' = "Ingested"
        \/ stage = "Ingested" /\ stage' = "Renamed"
        \/ stage = "Renamed" /\ stage' = "Corrected"]_vars

\* C7 as amended: the table leaves Unpopulated only by a successful ingestion
\* (rename_columns and apply_corrections raise on an unpopulated table), and a
\* process call whose ingestion succeeds leaves the stage of the last of its
\* steps, taken in order, that succeeded; a direct apply_corrections on an
\* Ingested table, or rename_columns on a Corrected one, is not refused.
C7_StagesNeedIngestion ==
    [][/\ (stage = "Unpopulated" /\ stage' # "Unpopulated") =>
            (call' \in {"ingest_sql_data", "process"} /\ ~loaded'.is_none)
       /\ (stage' = "Unpopulated") = df'.is_none
       /\ (call' \in {"rename_columns", "apply_corrections"} /\ df.is_none) =>
            (error' # "None" /\ df'.is_none)
       /\ (call' = "process" /\ ~loaded'.is_none) =>
            stage' = (IF Len(steps') = 2 THEN "Ingested"
                      ELSE IF error' # "None" THEN "Renamed" ELSE "Corrected")]_vars

C7_Witness ==
    /\ stage = "Unpopulated"
    /\ call = "apply_corrections"
    /\ error = "TypeError"
    /\ engine = "Engine"

\* what process leaves: partial says whether a failed apply_corrections may leave
\* the absolute values it had already stored
ProcessAborts(partial) ==
    call' = "process" =>
        /\ \E n \in 1..3 : steps' = SubSeq(ProcessSteps, 1, n)
        /\ loaded'.is_none =>
            (steps' = <<"ingest_sql_data">> /\ error' \in IngestErrors /\ df' = df)
        /\ ~loaded'.is_none =>
            /\ error' \notin IngestErrors
            /\ Len(steps') >= 2
            /\ Len(steps') = 2 => (error' # "None" /\ df' = loaded')
            /\ (Len(steps') = 3 /\ error' # "None") =>
                \/ df' = RenamedLoaded'
                \/ /\ partial
                   /\ error' = "KeyError"
                   /\ "Crop_type" \notin ColumnNames(RenamedLoaded')
                   /\ df' = AbsColumn(RenamedLoaded', "Elevation")
            /\ (Len(steps') = 3 /\ error' = "None") =>
                df' = MapColumn(AbsColumn(RenamedLoaded', "Elevation"), values_to_rename, "Crop_type")

\* C8 as stated: process attempts ingestion, rename and corrections in that order,
\* stops at the first step that raises, and leaves the table as the steps that
\* succeeded before it left it: unchanged when ingestion fails, the renamed,
\* uncorrected table when corrections fail.
C8_AbortKeepsPriorState == [][ProcessAborts(FALSE)]_vars

\* C8 as amended: the same, except that when corrections fail on the missing
\* categorical column the table is the renamed table with the numeric column
\* already replaced by its absolute values.
C8_AbortKeepsPartialState == [][ProcessAborts(TRUE)]_vars

C8_Witness ==
    /\ call = "process"
    /\ steps = ProcessSteps
    /\ error = "KeyError"
    /\ df # RenamedLoaded
    /\ df = AbsColumn(RenamedLoaded, "Elevation")

\* C9: weather_station_mapping, whether it returns or raises and whatever the
\* stage, changes neither the table, nor the connection handle, nor the
\* configuration; it returns the fetched table or nothing.
C9_WeatherReadOnly ==
    [][call' = "weather_station_mapping" =>
        /\ df' = df
        /\ engine' = engine
        /\ config' = config
        /\ stage' = stage
        /\ returned' = (IF error' = "None" THEN WeatherTable ELSE NoneDF)]_vars

C9_Witness ==
    /\ call = "weather_station_mapping"
    /\ error = "None"
    /\ returned = WeatherTable
    /\ stage = "Corrected"
    /\ ~df.is_none

====
